---- MODULE Spec2Model ----
(***************************************************************************)
(* Model of prompt_cleaner/utils.py (UUIDReplacer, process_messages,        *)
(* clean_prompt, restore_output) and of prompt_cleaner/cleaner.py          *)
(* (PromptCleanerClient and the wrappers around the client's create).      *)
(*                                                                         *)
(* A text is a sequence of one-character strings.  A Python dict is a      *)
(* sequence of <<key, value>> pairs with unique keys, in insertion order.  *)
(* The regular expressions of the source are matched character by          *)
(* character, and re.sub is the left-to-right non-overlapping scan.        *)
(***************************************************************************)
EXTENDS Integers, Sequences, FiniteSets, TLC

VARIABLES replacer, pc, arg, pre, ret, held, heap, client, threads

\* the state of the scenarios with object identity, a client, or threads
others == <<heap, client, threads>>

vars == <<replacer, pc, arg, pre, ret, held, heap, client, threads>>

(***************************************************************************)
(* Bounds of the model.                                                    *)
(***************************************************************************)
\* the longest input text, in pieces (a piece is a delimited span or a literal)
MaxPieces == 2
\* the number of distinct identifiers of the overflow scenario minus ten
OverflowExtra == 1
\* the number of replace_uuids calls of the object scenario
MaxCalls == 2
\* the longest list of messages of one process_messages call
MaxMsgs == 2

(***************************************************************************)
(* Characters and strings.                                                 *)
(***************************************************************************)
Rep(c, n) == [i \in 1..n |-> c]

\* the element of a set of one element: Only({F(v) : v \in {e}}) is F(e)
Only(S) == CHOOSE v \in S : TRUE

DigitChars == <<"0", "1", "2", "3", "4", "5", "6", "7", "8", "9">>

HexChars == DigitChars \o <<"a", "b", "c", "d", "e", "f", "A", "B", "C", "D", "E", "F">>

\* A character that is not ASCII is written as its code point, "U+0663".
\* The decimal digits outside ASCII (Unicode category Nd): each row is the
\* digits zero to nine of one script.
NonAsciiDigitRuns == <<
    <<"U+0660", "U+0661", "U+0662", "U+0663", "U+0664",
      "U+0665", "U+0666", "U+0667", "U+0668", "U+0669">>,
    <<"U+06F0", "U+06F1", "U+06F2", "U+06F3", "U+06F4",
      "U+06F5", "U+06F6", "U+06F7", "U+06F8", "U+06F9">>,
    <<"U+07C0", "U+07C1", "U+07C2", "U+07C3", "U+07C4",
      "U+07C5", "U+07C6", "U+07C7", "U+07C8", "U+07C9">>,
    <<"U+0966", "U+0967", "U+0968", "U+0969", "U+096A",
      "U+096B", "U+096C", "U+096D", "U+096E", "U+096F">>,
    <<"U+09E6", "U+09E7", "U+09E8", "U+09E9", "U+09EA",
      "U+09EB", "U+09EC", "U+09ED", "U+09EE", "U+09EF">>,
    <<"U+0A66", "U+0A67", "U+0A68", "U+0A69", "U+0A6A",
      "U+0A6B", "U+0A6C", "U+0A6D", "U+0A6E", "U+0A6F">>,
    <<"U+0AE6", "U+0AE7", "U+0AE8", "U+0AE9", "U+0AEA",
      "U+0AEB", "U+0AEC", "U+0AED", "U+0AEE", "U+0AEF">>,
    <<"U+0B66", "U+0B67", "U+0B68", "U+0B69", "U+0B6A",
      "U+0B6B", "U+0B6C", "U+0B6D", "U+0B6E", "U+0B6F">>,
    <<"U+0BE6", "U+0BE7", "U+0BE8", "U+0BE9", "U+0BEA",
      "U+0BEB", "U+0BEC", "U+0BED", "U+0BEE", "U+0BEF">>,
    <<"U+0C66", "U+0C67", "U+0C68", "U+0C69", "U+0C6A",
      "U+0C6B", "U+0C6C", "U+0C6D", "U+0C6E", "U+0C6F">>,
    <<"U+0CE6", "U+0CE7", "U+0CE8", "U+0CE9", "U+0CEA",
      "U+0CEB", "U+0CEC", "U+0CED", "U+0CEE", "U+0CEF">>,
    <<"U+0D66", "U+0D67", "U+0D68", "U+0D69", "U+0D6A",
      "U+0D6B", "U+0D6C", "U+0D6D", "U+0D6E", "U+0D6F">>,
    <<"U+0DE6", "U+0DE7", "U+0DE8", "U+0DE9", "U+0DEA",
      "U+0DEB", "U+0DEC", "U+0DED", "U+0DEE", "U+0DEF">>,
    <<"U+0E50", "U+0E51", "U+0E52", "U+0E53", "U+0E54",
      "U+0E55", "U+0E56", "U+0E57", "U+0E58", "U+0E59">>,
    <<"U+0ED0", "U+0ED1", "U+0ED2", "U+0ED3", "U+0ED4",
      "U+0ED5", "U+0ED6", "U+0ED7", "U+0ED8", "U+0ED9">>,
    <<"U+0F20", "U+0F21", "U+0F22", "U+0F23", "U+0F24",
      "U+0F25", "U+0F26", "U+0F27", "U+0F28", "U+0F29">>,
    <<"U+1040", "U+1041", "U+1042", "U+1043", "U+1044",
      "U+1045", "U+1046", "U+1047", "U+1048", "U+1049">>,
    <<"U+1090", "U+1091", "U+1092", "U+1093", "U+1094",
      "U+1095", "U+1096", "U+1097", "U+1098", "U+1099">>,
    <<"U+17E0", "U+17E1", "U+17E2", "U+17E3", "U+17E4",
      "U+17E5", "U+17E6", "U+17E7", "U+17E8", "U+17E9">>,
    <<"U+1810", "U+1811", "U+1812", "U+1813", "U+1814",
      "U+1815", "U+1816", "U+1817", "U+1818", "U+1819">>,
    <<"U+1946", "U+1947", "U+1948", "U+1949", "U+194A",
      "U+194B", "U+194C", "U+194D", "U+194E", "U+194F">>,
    <<"U+19D0", "U+19D1", "U+19D2", "U+19D3", "U+19D4",
      "U+19D5", "U+19D6", "U+19D7", "U+19D8", "U+19D9">>,
    <<"U+1A80", "U+1A81", "U+1A82", "U+1A83", "U+1A84",
      "U+1A85", "U+1A86", "U+1A87", "U+1A88", "U+1A89">>,
    <<"U+1A90", "U+1A91", "U+1A92", "U+1A93", "U+1A94",
      "U+1A95", "U+1A96", "U+1A97", "U+1A98", "U+1A99">>,
    <<"U+1B50", "U+1B51", "U+1B52", "U+1B53", "U+1B54",
      "U+1B55", "U+1B56", "U+1B57", "U+1B58", "U+1B59">>,
    <<"U+1BB0", "U+1BB1", "U+1BB2", "U+1BB3", "U+1BB4",
      "U+1BB5", "U+1BB6", "U+1BB7", "U+1BB8", "U+1BB9">>,
    <<"U+1C40", "U+1C41", "U+1C42", "U+1C43", "U+1C44",
      "U+1C45", "U+1C46", "U+1C47", "U+1C48", "U+1C49">>,
    <<"U+1C50", "U+1C51", "U+1C52", "U+1C53", "U+1C54",
      "U+1C55", "U+1C56", "U+1C57", "U+1C58", "U+1C59">>,
    <<"U+A620", "U+A621", "U+A622", "U+A623", "U+A624",
      "U+A625", "U+A626", "U+A627", "U+A628", "U+A629">>,
    <<"U+A8D0", "U+A8D1", "U+A8D2", "U+A8D3", "U+A8D4",
      "U+A8D5", "U+A8D6", "U+A8D7", "U+A8D8", "U+A8D9">>,
    <<"U+A900", "U+A901", "U+A902", "U+A903", "U+A904",
      "U+A905", "U+A906", "U+A907", "U+A908", "U+A909">>,
    <<"U+A9D0", "U+A9D1", "U+A9D2", "U+A9D3", "U+A9D4",
      "U+A9D5", "U+A9D6", "U+A9D7", "U+A9D8", "U+A9D9">>,
    <<"U+A9F0", "U+A9F1", "U+A9F2", "U+A9F3", "U+A9F4",
      "U+A9F5", "U+A9F6", "U+A9F7", "U+A9F8", "U+A9F9">>,
    <<"U+AA50", "U+AA51", "U+AA52", "U+AA53", "U+AA54",
      "U+AA55", "U+AA56", "U+AA57", "U+AA58", "U+AA59">>,
    <<"U+ABF0", "U+ABF1", "U+ABF2", "U+ABF3", "U+ABF4",
      "U+ABF5", "U+ABF6", "U+ABF7", "U+ABF8", "U+ABF9">>,
    <<"U+FF10", "U+FF11", "U+FF12", "U+FF13", "U+FF14",
      "U+FF15", "U+FF16", "U+FF17", "U+FF18", "U+FF19">>,
    <<"U+104A0", "U+104A1", "U+104A2", "U+104A3", "U+104A4",
      "U+104A5", "U+104A6", "U+104A7", "U+104A8", "U+104A9">>,
    <<"U+10D30", "U+10D31", "U+10D32", "U+10D33", "U+10D34",
      "U+10D35", "U+10D36", "U+10D37", "U+10D38", "U+10D39">>,
    <<"U+11066", "U+11067", "U+11068", "U+11069", "U+1106A",
      "U+1106B", "U+1106C", "U+1106D", "U+1106E", "U+1106F">>,
    <<"U+110F0", "U+110F1", "U+110F2", "U+110F3", "U+110F4",
      "U+110F5", "U+110F6", "U+110F7", "U+110F8", "U+110F9">>,
    <<"U+11136", "U+11137", "U+11138", "U+11139", "U+1113A",
      "U+1113B", "U+1113C", "U+1113D", "U+1113E", "U+1113F">>,
    <<"U+111D0", "U+111D1", "U+111D2", "U+111D3", "U+111D4",
      "U+111D5", "U+111D6", "U+111D7", "U+111D8", "U+111D9">>,
    <<"U+112F0", "U+112F1", "U+112F2", "U+112F3", "U+112F4",
      "U+112F5", "U+112F6", "U+112F7", "U+112F8", "U+112F9">>,
    <<"U+11450", "U+11451", "U+11452", "U+11453", "U+11454",
      "U+11455", "U+11456", "U+11457", "U+11458", "U+11459">>,
    <<"U+114D0", "U+114D1", "U+114D2", "U+114D3", "U+114D4",
      "U+114D5", "U+114D6", "U+114D7", "U+114D8", "U+114D9">>,
    <<"U+11650", "U+11651", "U+11652", "U+11653", "U+11654",
      "U+11655", "U+11656", "U+11657", "U+11658", "U+11659">>,
    <<"U+116C0", "U+116C1", "U+116C2", "U+116C3", "U+116C4",
      "U+116C5", "U+116C6", "U+116C7", "U+116C8", "U+116C9">>,
    <<"U+11730", "U+11731", "U+11732", "U+11733", "U+11734",
      "U+11735", "U+11736", "U+11737", "U+11738", "U+11739">>,
    <<"U+118E0", "U+118E1", "U+118E2", "U+118E3", "U+118E4",
      "U+118E5", "U+118E6", "U+118E7", "U+118E8", "U+118E9">>,
    <<"U+11950", "U+11951", "U+11952", "U+11953", "U+11954",
      "U+11955", "U+11956", "U+11957", "U+11958", "U+11959">>,
    <<"U+11C50", "U+11C51", "U+11C52", "U+11C53", "U+11C54",
      "U+11C55", "U+11C56", "U+11C57", "U+11C58", "U+11C59">>,
    <<"U+11D50", "U+11D51", "U+11D52", "U+11D53", "U+11D54",
      "U+11D55", "U+11D56", "U+11D57", "U+11D58", "U+11D59">>,
    <<"U+11DA0", "U+11DA1", "U+11DA2", "U+11DA3", "U+11DA4",
      "U+11DA5", "U+11DA6", "U+11DA7", "U+11DA8", "U+11DA9">>,
    <<"U+16A60", "U+16A61", "U+16A62", "U+16A63", "U+16A64",
      "U+16A65", "U+16A66", "U+16A67", "U+16A68", "U+16A69">>,
    <<"U+16AC0", "U+16AC1", "U+16AC2", "U+16AC3", "U+16AC4",
      "U+16AC5", "U+16AC6", "U+16AC7", "U+16AC8", "U+16AC9">>,
    <<"U+16B50", "U+16B51", "U+16B52", "U+16B53", "U+16B54",
      "U+16B55", "U+16B56", "U+16B57", "U+16B58", "U+16B59">>,
    <<"U+1D7CE", "U+1D7CF", "U+1D7D0", "U+1D7D1", "U+1D7D2",
      "U+1D7D3", "U+1D7D4", "U+1D7D5", "U+1D7D6", "U+1D7D7">>,
    <<"U+1D7D8", "U+1D7D9", "U+1D7DA", "U+1D7DB", "U+1D7DC",
      "U+1D7DD", "U+1D7DE", "U+1D7DF", "U+1D7E0", "U+1D7E1">>,
    <<"U+1D7E2", "U+1D7E3", "U+1D7E4", "U+1D7E5", "U+1D7E6",
      "U+1D7E7", "U+1D7E8", "U+1D7E9", "U+1D7EA", "U+1D7EB">>,
    <<"U+1D7EC", "U+1D7ED", "U+1D7EE", "U+1D7EF", "U+1D7F0",
      "U+1D7F1", "U+1D7F2", "U+1D7F3", "U+1D7F4", "U+1D7F5">>,
    <<"U+1D7F6", "U+1D7F7", "U+1D7F8", "U+1D7F9", "U+1D7FA",
      "U+1D7FB", "U+1D7FC", "U+1D7FD", "U+1D7FE", "U+1D7FF">>,
    <<"U+1E140", "U+1E141", "U+1E142", "U+1E143", "U+1E144",
      "U+1E145", "U+1E146", "U+1E147", "U+1E148", "U+1E149">>,
    <<"U+1E2F0", "U+1E2F1", "U+1E2F2", "U+1E2F3", "U+1E2F4",
      "U+1E2F5", "U+1E2F6", "U+1E2F7", "U+1E2F8", "U+1E2F9">>,
    <<"U+1E950", "U+1E951", "U+1E952", "U+1E953", "U+1E954",
      "U+1E955", "U+1E956", "U+1E957", "U+1E958", "U+1E959">>,
    <<"U+1FBF0", "U+1FBF1", "U+1FBF2", "U+1FBF3", "U+1FBF4",
      "U+1FBF5", "U+1FBF6", "U+1FBF7", "U+1FBF8", "U+1FBF9">>
  >>

NonAsciiDigits ==
    UNION {{NonAsciiDigitRuns[r][k] : k \in 1..10} : r \in 1..Len(NonAsciiDigitRuns)}

\* the ASCII digit of the value of a decimal digit outside ASCII
AsciiDigitOf ==
    [c \in NonAsciiDigits |->
        DigitChars[CHOOSE k \in 1..10 :
                       \E r \in 1..Len(NonAsciiDigitRuns) : NonAsciiDigitRuns[r][k] = c]]

\* the white space outside ASCII
NonAsciiSpaces ==
    {"U+0085", "U+00A0", "U+1680", "U+2000", "U+2001", "U+2002",
     "U+2003", "U+2004", "U+2005", "U+2006", "U+2007", "U+2008",
     "U+2009", "U+200A", "U+2028", "U+2029", "U+202F", "U+205F",
     "U+3000"}

\* \d of the digit pattern, a str pattern without re.ASCII: every Unicode
\* decimal digit
AsciiDigits == {DigitChars[k] : k \in 1..Len(DigitChars)}

DecimalDigits == AsciiDigits \cup NonAsciiDigits

\* c is in DecimalDigits; an ASCII character is written as itself, one character
IsDigit(c) == IF Len(c) = 1 THEN c \in AsciiDigits ELSE c \in NonAsciiDigits

\* [0-9a-fA-F]
HexDigits == {HexChars[k] : k \in 1..Len(HexChars)}

IsHex(c) == c \in HexDigits

\* str(n) for n >= 0
RECURSIVE Str(_)
Str(n) == IF n < 10 THEN <<DigitChars[n + 1]>>
          ELSE Append(Str(n \div 10), DigitChars[(n % 10) + 1])

\* s.zfill(width) for an unsigned numeral: pads on the left, never truncates
ZFill(s, width) == IF Len(s) >= width THEN s ELSE Rep("0", width - Len(s)) \o s

(***************************************************************************)
(* Python dict: insertion-ordered pairs with unique keys.                  *)
(***************************************************************************)
DictKeys(d) == {d[k][1] : k \in 1..Len(d)}

DictValues(d) == {d[k][2] : k \in 1..Len(d)}

DictHas(d, key) == key \in DictKeys(d)

DictGet(d, key) == d[CHOOSE k \in 1..Len(d) : d[k][1] = key][2]

\* d[key] = value: an existing key keeps its position, a new key is appended
DictSet(d, key, value) ==
    IF DictHas(d, key)
    THEN [k \in 1..Len(d) |-> IF d[k][1] = key THEN <<key, value>> ELSE d[k]]
    ELSE Append(d, <<key, value>>)

(***************************************************************************)
(* UUIDReplacer.                                                           *)
(***************************************************************************)
\* {'[': ']', '(': ')', '{': '}', '<': '>'}.get(sep, sep)
CloseSep(s) == CASE s = "[" -> "]"
                 [] s = "(" -> ")"
                 [] s = "{" -> "}"
                 [] s = "<" -> ">"
                 [] OTHER -> s

\* UUIDReplacer(sep, nr_digits): __init__
UUIDReplacer(s, n) == [sep |-> s, nr_digits |-> n, uuid_mapping |-> <<>>,
                      counter |-> 0, close_sep |-> CloseSep(s)]

\* a pattern [0-9a-fA-F-]{36}: the hyphens are not held to their positions
UuidShape_any_hyphens(tok) ==
    /\ Len(tok) = 36
    /\ \A k \in 1..36 : tok[k] = "-" \/ IsHex(tok[k])

\* uuid_pattern: 8-4-4-4-12 hex digits, on a token of 36 characters
UuidShape(tok) ==
    /\ Len(tok) = 36
    /\ \A k \in 1..36 : IF k \in {9, 14, 19, 24} THEN tok[k] = "-" ELSE IsHex(tok[k])

\* a pattern that leaves the delimiters open: any character on either side
PatternMatchAt_any_delims(self, text, i) ==
    /\ i + 37 <= Len(text)
    /\ UuidShape(SubSeq(text, i + 1, i + 36))

\* self.pattern matches text at position i: sep, the uuid pattern, close_sep
PatternMatchAt(self, text, i) ==
    /\ i + 37 <= Len(text)
    /\ text[i] = self.sep
    /\ UuidShape(SubSeq(text, i + 1, i + 36))
    /\ text[i + 37] = self.close_sep

\* the counter is not advanced
_generate_replacement_no_increment(self) ==
    [replacement |-> ZFill(Str(self.counter), self.nr_digits), self |-> self]

\* _generate_replacement: the numeral of the counter, and the counter advanced
_generate_replacement(self) ==
    [replacement |-> ZFill(Str(self.counter), self.nr_digits),
     self |-> [self EXCEPT !.counter = self.counter + 1]]

\* s.replace(old, ''): the occurrences of old from the left, not overlapping
RECURSIVE str_remove(_, _)
str_remove(s, old) ==
    LET found == {j \in 1..(Len(s) - Len(old) + 1) :
                     s[j] = old[1] /\ SubSeq(s, j, j + Len(old) - 1) = old}
    IN  IF found = {} THEN s
        ELSE LET j == CHOOSE m \in found : \A o \in found : m <= o
             IN  SubSeq(s, 1, j - 1) \o str_remove(SubSeq(s, j + Len(old), Len(s)), old)

\* s.strip(chars), and s.strip() with chars the white space
str_strip(s, chars) ==
    LET keep == {j \in 1..Len(s) : s[j] \notin chars}
    IN  IF keep = {} THEN <<>>
        ELSE SubSeq(s, CHOOSE m \in keep : \A o \in keep : m <= o,
                       CHOOSE m \in keep : \A o \in keep : m >= o)

\* the white space int() skips: ASCII (U+000B is the vertical tab) and beyond
WhiteSpace == {" ", "\t", "\n", "\r", "\f", "U+000B"} \cup NonAsciiSpaces

\* int(s, 16) first writes s in ASCII: an ASCII character (written as itself,
\* one character) stays, a white space character outside ASCII becomes a space
\* and a decimal digit outside ASCII the ASCII digit of its value
to_ascii(s) ==
    [k \in 1..Len(s) |-> IF Len(s[k]) = 1 THEN s[k]
                         ELSE IF s[k] \in NonAsciiSpaces THEN " "
                         ELSE IF s[k] \in NonAsciiDigits THEN AsciiDigitOf[s[k]]
                         ELSE s[k]]

\* the digit c is a zero
IsZeroDigit(c) == c = "0" \/ (c \in NonAsciiDigits /\ AsciiDigitOf[c] = "0")

\* int(s, 16) does not raise and, for uuid.UUID, is in 0 .. 2^128 - 1 (s has 32
\* characters): white space around, a sign, a 0x prefix, then hex or decimal
\* digits with single underscores between them (and one after the prefix)
int_digits_ok(w, negative) ==
    LET digit(c) == c \in HexDigits \/ c \in NonAsciiDigits
    IN  /\ w # <<>>
        /\ digit(w[1]) /\ digit(w[Len(w)])
        /\ \A k \in 1..Len(w) : digit(w[k]) \/ w[k] = "_"
        /\ \A k \in 1..(Len(w) - 1) : ~(w[k] = "_" /\ w[k + 1] = "_")
        /\ negative => \A k \in 1..Len(w) : IsZeroDigit(w[k]) \/ w[k] = "_"

int_16_in_range(s) ==
    \E t \in {str_strip(to_ascii(s), WhiteSpace)} :
        LET signed == t # <<>> /\ t[1] \in {"+", "-"}
            u == IF signed THEN Tail(t) ELSE t
            prefixed == Len(u) >= 2 /\ u[1] = "0" /\ u[2] \in {"x", "X"}
            v == IF prefixed THEN SubSeq(u, 3, Len(u)) ELSE u
        IN  \E w \in {IF prefixed /\ v # <<>> /\ v[1] = "_" THEN Tail(v) ELSE v} :
                int_digits_ok(w, signed /\ t[1] = "-")

\* uuid.UUID(uuid_str) does not raise: 'urn:' and 'uuid:' removed, braces
\* stripped, hyphens removed, then 32 characters that int(hex, 16) takes
_is_valid_uuid(uuid_str) ==
    \E hex \in {SelectSeq(str_strip(str_remove(str_remove(uuid_str, <<"u", "r", "n", ":">>),
                                                <<"u", "u", "i", "d", ":">>),
                                     {"{", "}"}),
                           LAMBDA c : c # "-")} :
        /\ Len(hex) = 32
        /\ int_16_in_range(hex)

\* the mapping is not consulted: every match gets a new placeholder
replace_match_no_reuse(self, group0) ==
    LET uuid_str == SubSeq(group0, 2, Len(group0) - 1)
    IN  IF ~_is_valid_uuid(uuid_str)
        THEN [repl |-> group0, self |-> self]
        ELSE LET g == _generate_replacement(self)
             IN  [repl |-> <<self.sep>> \o g.replacement \o <<self.close_sep>>,
                  self |-> [g.self EXCEPT !.uuid_mapping =
                               DictSet(g.self.uuid_mapping, uuid_str, g.replacement)]]

\* the replacement is generated before the mapping is consulted
replace_match_eager_counter(self, group0) ==
    LET uuid_str == SubSeq(group0, 2, Len(group0) - 1)
        g == _generate_replacement(self)
    IN  IF ~_is_valid_uuid(uuid_str)
        THEN [repl |-> group0, self |-> self]
        ELSE IF DictHas(self.uuid_mapping, uuid_str)
        THEN [repl |-> <<self.sep>> \o DictGet(self.uuid_mapping, uuid_str)
                          \o <<self.close_sep>>,
              self |-> g.self]
        ELSE [repl |-> <<self.sep>> \o g.replacement \o <<self.close_sep>>,
              self |-> [g.self EXCEPT !.uuid_mapping =
                           DictSet(g.self.uuid_mapping, uuid_str, g.replacement)]]

\* replace_match(match): group0 is the whole span, group 1 the token
replace_match(self, group0) ==
    LET uuid_str == SubSeq(group0, 2, Len(group0) - 1)
    IN  IF ~_is_valid_uuid(uuid_str)
        THEN [repl |-> group0, self |-> self]
        ELSE IF DictHas(self.uuid_mapping, uuid_str)
        THEN [repl |-> <<self.sep>> \o DictGet(self.uuid_mapping, uuid_str)
                          \o <<self.close_sep>>,
              self |-> self]
        ELSE LET g == _generate_replacement(self)
             IN  [repl |-> <<self.sep>> \o g.replacement \o <<self.close_sep>>,
                  self |-> [g.self EXCEPT !.uuid_mapping =
                               DictSet(g.self.uuid_mapping, uuid_str, g.replacement)]]

\* re.sub(self.pattern, replace_match, text) from position i on: the leftmost
\* match at or after i is replaced, and the scan goes on behind it
RECURSIVE re_sub_pattern(_, _, _, _)
re_sub_pattern(self, text, i, out) ==
    LET found == {j \in i..Len(text) : PatternMatchAt(self, text, j)}
    IN  IF found = {}
        THEN [text |-> out \o SubSeq(text, i, Len(text)), self |-> self]
        ELSE LET j == CHOOSE m \in found : \A o \in found : m <= o
                 r == replace_match(self, SubSeq(text, j, j + 37))
             IN  re_sub_pattern(r.self, text, j + 38,
                                out \o SubSeq(text, i, j - 1) \o r.repl)

\* every call starts from an empty mapping
replace_uuids_per_call_mapping(self, text) ==
    LET r == re_sub_pattern([self EXCEPT !.uuid_mapping = <<>>], text, 1, <<>>)
    IN  [text |-> r.text, mapping |-> r.self.uuid_mapping, self |-> r.self]

\* replace_uuids(text): the modified text, a copy of the mapping, and the instance
replace_uuids(self, text) ==
    LET r == re_sub_pattern(self, text, 1, <<>>)
    IN  [text |-> r.text, mapping |-> r.self.uuid_mapping, self |-> r.self]

\* the counter is not reset
reset_keeps_counter(self) == [self EXCEPT !.uuid_mapping = <<>>]

\* reset()
reset(self) == [self EXCEPT !.uuid_mapping = <<>>, !.counter = 0]

\* clean_prompt(prompt, sep, nr_digits)
clean_prompt(prompt, s, n) ==
    LET r == replace_uuids(UUIDReplacer(s, n), prompt)
    IN  [text |-> r.text, mapping |-> r.mapping]

(***************************************************************************)
(* restore_output.                                                         *)
(***************************************************************************)
\* {v: k for k, v in mapping.items()}: a later entry overrides an earlier one
RECURSIVE reverse_mapping(_, _, _)
reverse_mapping(mapping, k, rev) ==
    IF k > Len(mapping) THEN rev
    ELSE reverse_mapping(mapping, k + 1, DictSet(rev, mapping[k][2], mapping[k][1]))

\* what follows \d in the pattern when nr_digits is negative: {-k} is then
\* no quantifier but these characters themselves
LiteralBraces(n) == <<"{", "-">> \o Str(0 - n) \o <<"}">>

\* the length of group 1 of digit_pattern: nr_digits digits, or for a negative
\* nr_digits one digit and the characters of {nr_digits}
DigitGroupLen(n) == IF n >= 0 THEN n ELSE 1 + Len(LiteralBraces(n))

\* digit_pattern matches output at position i: sep, group 1, close_sep
DigitPatternMatchAt(output, i, s, c, n) ==
    LET g == DigitGroupLen(n)
    IN  /\ i + g + 1 <= Len(output)
        /\ output[i] = s
        /\ IF n >= 0
           THEN \A j \in 1..n : IsDigit(output[i + j])
           ELSE /\ IsDigit(output[i + 1])
                /\ SubSeq(output, i + 2, i + g) = LiteralBraces(n)
        /\ output[i + g + 1] = c

\* reverse_mapping.get(digit_str, ""): an unmapped span loses its digits
restore_match_drop_unmapped(rev, group0, s, c) ==
    LET digit_str == SubSeq(group0, 2, Len(group0) - 1)
    IN  <<s>> \o (IF DictHas(rev, digit_str) THEN DictGet(rev, digit_str) ELSE <<>>) \o <<c>>

\* restore_match(match)
restore_match(rev, group0, s, c) ==
    LET digit_str == SubSeq(group0, 2, Len(group0) - 1)
    IN  IF DictHas(rev, digit_str)
        THEN <<s>> \o DictGet(rev, digit_str) \o <<c>>
        ELSE group0

\* re.sub(digit_pattern, restore_match, output) from position i on
RECURSIVE re_sub_digits(_, _, _, _, _, _, _)
re_sub_digits(output, rev, s, c, n, i, out) ==
    LET found == {j \in i..Len(output) : DigitPatternMatchAt(output, j, s, c, n)}
    IN  IF found = {}
        THEN out \o SubSeq(output, i, Len(output))
        ELSE LET j == CHOOSE m \in found : \A o \in found : m <= o
                 g == DigitGroupLen(n)
             IN  re_sub_digits(output, rev, s, c, n, j + g + 2,
                               out \o SubSeq(output, i, j - 1)
                                   \o restore_match(rev, SubSeq(output, j, j + g + 1), s, c))

\* the table of restore_output misses '<'
restore_close_sep_no_angle(s) == CASE s = "[" -> "]"
                                   [] s = "(" -> ")"
                                   [] s = "{" -> "}"
                                   [] OTHER -> s

\* restore_output's own {'[': ']', '(': ')', '{': '}', '<': '>'}.get(sep, sep)
restore_close_sep(s) == CASE s = "[" -> "]"
                          [] s = "(" -> ")"
                          [] s = "{" -> "}"
                          [] s = "<" -> ">"
                          [] OTHER -> s

\* restore_output(output, mapping, sep, nr_digits)
restore_output(output, mapping, s, n) ==
    re_sub_digits(output, reverse_mapping(mapping, 1, <<>>), s, restore_close_sep(s),
                  n, 1, <<>>)

(***************************************************************************)
(* Object identity.  heap is the sequence of the dict objects made so far, *)
(* a reference is an index into it; here self.uuid_mapping is a reference. *)
(***************************************************************************)
\* the instance with the contents of its mapping object
deref(self, hp) == [self EXCEPT !.uuid_mapping = hp[self.uuid_mapping]]

\* no copy is made: the same object is handed out
dict_copy_alias(hp, ref) == [heap |-> hp, ref |-> ref]

\* d.copy(): a new object with the contents of d
dict_copy(hp, ref) == [heap |-> Append(hp, hp[ref]), ref |-> Len(hp) + 1]

\* replace_uuids(text): the mapping object is updated in place and a copy is returned
replace_uuids_obj(self, hp, text) ==
    LET r == re_sub_pattern(deref(self, hp), text, 1, <<>>)
        c == dict_copy([hp EXCEPT ![self.uuid_mapping] = r.self.uuid_mapping],
                       self.uuid_mapping)
    IN  [text |-> r.text, mapping |-> c.ref, heap |-> c.heap,
         self |-> [r.self EXCEPT !.uuid_mapping = self.uuid_mapping]]

\* reset(): uuid_mapping.clear() empties the object in place
reset_obj(self, hp) ==
    [self |-> [self EXCEPT !.counter = 0],
     heap |-> [hp EXCEPT ![self.uuid_mapping] = <<>>]]

\* the reverse mapping is written into the mapping that was passed
restore_output_obj_in_place(hp, output, mref, s, n) ==
    [text |-> restore_output(output, hp[mref], s, n),
     heap |-> [hp EXCEPT ![mref] = reverse_mapping(hp[mref], 1, <<>>)]]

\* restore_output(output, mapping, sep, nr_digits) on a mapping object: it reads
\* the object and writes none
restore_output_obj(hp, output, mref, s, n) ==
    [text |-> restore_output(output, hp[mref], s, n), heap |-> hp]

(***************************************************************************)
(* process_messages.  A message is a dict; a value is <<"str", text>> for  *)
(* a string and another tagged tuple for anything else.  The messages of   *)
(* the caller are objects 1..n of a local heap, so that message.copy() and *)
(* the assignment to the copy are what they are in the source.             *)
(***************************************************************************)
\* isinstance(v, str)
IsStr(v) == v[1] = "str"

\* d.update(e): the entries of e are set in d, in the order of e
RECURSIVE dict_update(_, _, _)
dict_update(d, e, k) ==
    IF k > Len(e) THEN d ELSE dict_update(DictSet(d, e[k][1], e[k][2]), e, k + 1)

\* processed_message = message: no copy is made
message_copy_alias(hp, ref) == [heap |-> hp, ref |-> ref]

\* message.copy()
message_copy(hp, ref) == [heap |-> Append(hp, hp[ref]), ref |-> Len(hp) + 1]

\* the loop body with a UUIDReplacer made anew for every message
process_message_new_replacer(st, k) ==
    LET c == message_copy(st.heap, k)
        message == st.heap[k]
    IN  IF DictHas(message, "content") /\ IsStr(DictGet(message, "content"))
        THEN LET r == replace_uuids(UUIDReplacer(st.replacer.sep, st.replacer.nr_digits),
                                    DictGet(message, "content")[2])
             IN  [replacer |-> r.self,
                  heap |-> [c.heap EXCEPT ![c.ref] = DictSet(@, "content", <<"str", r.text>>)],
                  processed_messages |-> Append(st.processed_messages, c.ref),
                  all_mappings |-> dict_update(st.all_mappings, r.mapping, 1)]
        ELSE [st EXCEPT !.heap = c.heap,
                        !.processed_messages = Append(st.processed_messages, c.ref)]

\* the body of the loop over the messages, for message k
process_message(st, k) ==
    LET c == message_copy(st.heap, k)
        message == st.heap[k]
    IN  IF DictHas(message, "content") /\ IsStr(DictGet(message, "content"))
        THEN LET r == replace_uuids(st.replacer, DictGet(message, "content")[2])
             IN  [replacer |-> r.self,
                  heap |-> [c.heap EXCEPT ![c.ref] = DictSet(@, "content", <<"str", r.text>>)],
                  processed_messages |-> Append(st.processed_messages, c.ref),
                  all_mappings |-> dict_update(st.all_mappings, r.mapping, 1)]
        ELSE [st EXCEPT !.heap = c.heap,
                        !.processed_messages = Append(st.processed_messages, c.ref)]

RECURSIVE process_messages_loop(_, _, _)
process_messages_loop(st, k, n) ==
    IF k > n THEN st
    ELSE Only({process_messages_loop(next, k + 1, n) : next \in {process_message(st, k)}})

\* process_messages(messages, sep, nr_digits): the processed messages, the combined
\* mapping, and the caller's messages as the call leaves them
process_messages(messages, s, n) ==
    LET st == process_messages_loop(
                  [replacer |-> UUIDReplacer(s, n), heap |-> messages,
                   processed_messages |-> <<>>, all_mappings |-> <<>>],
                  1, Len(messages))
    IN  [processed_messages |->
             [k \in 1..Len(st.processed_messages) |-> st.heap[st.processed_messages[k]]],
         all_mappings |-> st.all_mappings,
         messages |-> [k \in 1..Len(messages) |-> st.heap[k]]]

(***************************************************************************)
(* The client wrappers.  The wrapped client is seen as the record of the   *)
(* calls it has answered: the method, the number of the call, the keyword  *)
(* arguments it received and the response it gave.  kwargs is a dict; the  *)
(* value of 'messages' is <<"list", messages>>.                            *)
(***************************************************************************)
None == [none |-> TRUE]

\* PromptCleanerClient(client, sep, nr_digits): __init__
PromptCleanerClient(wrapped, s, n) ==
    [_client |-> wrapped, sep |-> s, nr_digits |-> n, uuid_mappings |-> <<>>]

\* the response of the wrapped client to call k
Response(k) == <<"response", k>>

_process_chat_completion_kwargs(self, kwargs) ==
    IF DictHas(kwargs, "messages")
    THEN Only({[self |-> [self EXCEPT !.uuid_mappings = dict_update(@, r.all_mappings, 1)],
                processed_kwargs |->
                    DictSet(kwargs, "messages", <<"list", r.processed_messages>>)] :
                   r \in {process_messages(DictGet(kwargs, "messages")[2], self.sep,
                                           self.nr_digits)}})
    ELSE [self |-> self, processed_kwargs |-> kwargs]

\* create that passes the caller's arguments on as they came
create_forwards_kwargs(self, kwargs) ==
    Only({[self |-> p.self, call |-> kwargs] :
              p \in {_process_chat_completion_kwargs(self, kwargs)}})

\* CompletionsWrapper.create(**kwargs) up to its call of the wrapped client's
\* create: the client, and the keyword arguments of that call.  What the
\* wrapped call returns or raises is what create returns or raises.
create(self, kwargs) ==
    Only({[self |-> p.self, call |-> p.processed_kwargs] :
              p \in {_process_chat_completion_kwargs(self, kwargs)}})

\* __getattr__ of the wrappers: another attribute is the wrapped client's own,
\* and a call of it gets the caller's arguments
getattr_call(self, kwargs) == [self |-> self, call |-> kwargs]

\* prompt_cleaner(client, sep, nr_digits): __init__
prompt_cleaner(wrapped, s, n) ==
    [original_client |-> wrapped, sep |-> s, nr_digits |-> n, cleaner_client |-> None]

\* prompt_cleaner.__enter__: a new PromptCleanerClient on every entry
__enter__(self) ==
    [self EXCEPT !.cleaner_client =
         PromptCleanerClient(self.original_client, self.sep, self.nr_digits)]

\* prompt_cleaner.get_uuid_mappings(): a copy of the client's mapping, or {}
get_uuid_mappings(self) ==
    IF self.cleaner_client # None THEN self.cleaner_client.uuid_mappings ELSE <<>>

(***************************************************************************)
(* Inputs.  A text is given as a sequence of pieces <<kind, body>>:        *)
(*   "id"  a UUID wrapped in the configured delimiters,                    *)
(*   "bad" a token that is no 8-4-4-4-12 UUID, wrapped in the delimiters,  *)
(*   "ph"  a digit string wrapped in the delimiters,                       *)
(*   "lit" literal characters holding neither delimiter.                   *)
(* The operations receive the characters of the pieces, PieceText.         *)
(***************************************************************************)
UUIDOf(c) == Rep(c, 8) \o <<"-">> \o Rep(c, 4) \o <<"-">> \o Rep(c, 4) \o <<"-">>
             \o Rep(c, 4) \o <<"-">> \o Rep(c, 12)

IdPool == {UUIDOf("a"), UUIDOf("A"), UUIDOf("7")}

NotAUuid == <<"n", "o", "t", "-", "a", "-", "u", "u", "i", "d">>

\* 36 characters, 32 hex digits, hyphens off the 8-4-4-4-12 positions
MisplacedHyphens == Rep("a", 7) \o <<"-">> \o Rep("a", 5) \o <<"-">> \o Rep("a", 4)
                    \o <<"-">> \o Rep("a", 4) \o <<"-">> \o Rep("a", 12)

BadTokens == {NotAUuid, MisplacedHyphens, UUIDOf("g")}

\* an opening delimiter other than the configured one
OtherOpen(s) == IF s = "(" THEN "[" ELSE "("

Literals(s) == {<<"x">>, <<OtherOpen(s)>> \o UUIDOf("a") \o <<CloseSep(OtherOpen(s))>>}

Flatten(p, s) == IF p[1] = "lit" THEN p[2] ELSE <<s>> \o p[2] \o <<CloseSep(s)>>

RECURSIVE PieceText(_, _)
PieceText(ps, s) == IF ps = <<>> THEN <<>>
                    ELSE Flatten(Head(ps), s) \o PieceText(Tail(ps), s)

SeqsUpTo(S, n) == UNION {[1..k -> S] : k \in 0..n}

ReplacePieces(self) ==
    {<<"id", u>> : u \in IdPool} \cup {<<"bad", b>> : b \in BadTokens}
    \cup {<<"lit", l>> : l \in Literals(self.sep)}
    \cup {<<"ph", ZFill(<<"0">>, self.nr_digits)>>}

RestorePieces(self) ==
    {<<"ph", ZFill(Str(k), self.nr_digits)>> : k \in 0..Cardinality(IdPool)}
    \cup {<<"ph", Rep("0", self.nr_digits + 1)>>, <<"lit", <<"x">>>>,
          <<"id", UUIDOf("a")>>, <<"ph", Rep("U+0663", self.nr_digits)>>}
    \cup (IF self.nr_digits < 0
          THEN {<<"ph", <<"0">> \o LiteralBraces(self.nr_digits)>>} ELSE {})

Configs == {<<"[", 2>>, <<"|", 1>>}

(***************************************************************************)
(* The state machine: one caller drives one UUIDReplacer.  pc is the       *)
(* caller's position: "idle", or the operation that has just returned.     *)
(* arg is the text of that call, pre the instance as it was before it,     *)
(* ret what it returned; held is the mapping the caller kept from its last *)
(* replace_uuids call, which it passes to restore_output.                  *)
(***************************************************************************)
NoRet == [text |-> <<>>, mapping |-> <<>>]

\* no objects, no client, no threads
NoOthers == heap = <<>> /\ client = <<>> /\ threads = <<>>

Init == /\ \E cfg \in Configs : replacer = UUIDReplacer(cfg[1], cfg[2])
        /\ pc = "idle"
        /\ arg = <<>>
        /\ pre = replacer
        /\ ret = NoRet
        /\ held = <<>>
        /\ NoOthers

DoReplace(t) ==
    /\ pc = "idle"
    /\ LET r == replace_uuids(replacer, PieceText(t, replacer.sep))
       IN  /\ replacer' = r.self
           /\ ret' = [text |-> r.text, mapping |-> r.mapping]
    /\ pc' = "replaced"
    /\ arg' = t
    /\ pre' = replacer
    /\ UNCHANGED <<held, others>>

DoRestore(t) ==
    /\ pc = "idle"
    /\ ret' = [text |-> restore_output(PieceText(t, replacer.sep), held,
                                       replacer.sep, replacer.nr_digits),
               mapping |-> held]
    /\ pc' = "restored"
    /\ arg' = t
    /\ pre' = replacer
    /\ UNCHANGED <<replacer, held, others>>

Replace == \E t \in SeqsUpTo(ReplacePieces(replacer), MaxPieces) : DoReplace(t)

Restore == \E t \in SeqsUpTo(RestorePieces(replacer), MaxPieces) : DoRestore(t)

Reset ==
    /\ pc = "idle"
    /\ replacer' = reset(replacer)
    /\ pc' = "reset"
    /\ arg' = <<>>
    /\ pre' = replacer
    /\ ret' = NoRet
    /\ UNCHANGED <<held, others>>

\* the caller takes the result and goes on
Continue ==
    /\ pc # "idle"
    /\ pc' = "idle"
    /\ held' = IF pc = "replaced" THEN ret.mapping ELSE held
    /\ arg' = <<>>
    /\ pre' = replacer
    /\ ret' = NoRet
    /\ UNCHANGED <<replacer, others>>

Next == Replace \/ Restore \/ Reset \/ Continue

Spec == Init /\ [][Next]_vars

(***************************************************************************)
(* The overflow scenario: width 1 and more than ten distinct identifiers.  *)
(***************************************************************************)
OverflowIds == [k \in 1..(10 + OverflowExtra) |-> UUIDOf(HexChars[k])]

\* the first k identifiers in order, each wrapped
Run(k) == [j \in 1..k |-> <<"id", OverflowIds[j]>>]

\* the runs, and the last identifier alone
OverflowTexts == {Run(k) : k \in 1..Len(OverflowIds)}
                 \cup {<<<<"id", OverflowIds[Len(OverflowIds)]>>>>}

InitOverflow == /\ replacer = UUIDReplacer("[", 1)
                /\ pc = "idle"
                /\ arg = <<>>
                /\ pre = replacer
                /\ ret = NoRet
                /\ held = <<>>
                /\ NoOthers

ReplaceOverflow == \E t \in OverflowTexts : DoReplace(t)

RestoreOverflow ==
    \E p \in {<<"ph", v>> : v \in DictValues(held)} \cup {<<"lit", <<"x">>>>} :
        DoRestore(<<p>>)

NextOverflow == ReplaceOverflow \/ RestoreOverflow \/ Reset \/ Continue

SpecOverflow == InitOverflow /\ [][NextOverflow]_vars

(***************************************************************************)
(* What the pieces of a text say the operations must do.                   *)
(***************************************************************************)
\* the decimal numeral of k < 100 padded with zeros to width n
Numeral(k, n) == IF k < 10 THEN Rep("0", n - 1) \o <<DigitChars[k + 1]>>
                 ELSE Rep("0", n - 2) \o <<DigitChars[(k \div 10) + 1], DigitChars[(k % 10) + 1]>>

Wrap(body, s) == <<s>> \o body \o <<CloseSep(s)>>

IdSet(t) == {t[k][2] : k \in {j \in 1..Len(t) : t[j][1] = "id"}}

HasKind(t, kind) == \E k \in 1..Len(t) : t[k][1] = kind

\* the identifiers of t that are not in known, in the order of their first occurrence
RECURSIVE NewIds(_, _)
NewIds(t, known) ==
    IF t = <<>> THEN <<>>
    ELSE IF Head(t)[1] = "id" /\ Head(t)[2] \notin known
    THEN <<Head(t)[2]>> \o NewIds(Tail(t), known \cup {Head(t)[2]})
    ELSE NewIds(Tail(t), known)

KeySeq(d) == [k \in 1..Len(d) |-> d[k][1]]

\* t with every identifier span replaced by the placeholder m records for it
RECURSIVE ExpectedReplace(_, _, _)
ExpectedReplace(t, m, s) ==
    IF t = <<>> THEN <<>>
    ELSE (IF Head(t)[1] = "id" THEN Wrap(DictGet(m, Head(t)[2]), s) ELSE Flatten(Head(t), s))
         \o ExpectedReplace(Tail(t), m, s)

\* the identifier that m maps to placeholder v
KeyOf(m, v) == m[CHOOSE k \in 1..Len(m) : m[k][2] = v][1]

\* t with every placeholder span of the set mapped restored from m, the rest verbatim
RECURSIVE ExpectedRestore(_, _, _, _)
ExpectedRestore(t, m, s, mapped) ==
    IF t = <<>> THEN <<>>
    ELSE (IF Head(t)[1] = "ph" /\ Head(t)[2] \in mapped
          THEN Wrap(KeyOf(m, Head(t)[2]), s) ELSE Flatten(Head(t), s))
         \o ExpectedRestore(Tail(t), m, s, mapped)

Sep == replacer.sep

Mapping == replacer.uuid_mapping

(***************************************************************************)
(* C1. Stable reuse: with no reset in between, every occurrence of one     *)
(* identifier, in one text or in the texts of different calls, is replaced *)
(* by the same placeholder, and the mapping holds one entry for it.        *)
(***************************************************************************)
C1_StableReuse ==
    pc = "replaced" =>
        /\ IdSet(arg) \subseteq DictKeys(Mapping)
        /\ \A u \in IdSet(arg) : Cardinality({k \in 1..Len(Mapping) : Mapping[k][1] = u}) = 1
        /\ \A u \in IdSet(arg) \cap DictKeys(pre.uuid_mapping) :
               DictGet(Mapping, u) = DictGet(pre.uuid_mapping, u)
        /\ ret.text = ExpectedReplace(arg, Mapping, Sep)

\* an identifier known from an earlier call occurs twice in the text of this call
C1_Witness ==
    /\ pc = "replaced"
    /\ \E j, k \in 1..Len(arg) :
           /\ j # k
           /\ arg[j] = arg[k]
           /\ arg[j][1] = "id"
           /\ arg[j][2] \in DictKeys(pre.uuid_mapping)

(***************************************************************************)
(* C2. Monotonic distinctness: distinct identifiers have distinct          *)
(* placeholders, and the k-th distinct identifier seen (from 0, left to    *)
(* right, call by call) has the numeral of k padded to nr_digits.          *)
(***************************************************************************)
C2_MonotonicDistinct ==
    /\ \A k \in 1..Len(Mapping) : Mapping[k][2] = Numeral(k - 1, replacer.nr_digits)
    /\ \A j, k \in 1..Len(Mapping) :
           j # k => Mapping[j][1] # Mapping[k][1] /\ Mapping[j][2] # Mapping[k][2]
    /\ pc = "replaced" =>
           KeySeq(Mapping) = KeySeq(pre.uuid_mapping)
                             \o NewIds(arg, DictKeys(pre.uuid_mapping))

\* two new identifiers in one text, on an instance that knew one already
C2_Witness ==
    /\ pc = "replaced"
    /\ Len(pre.uuid_mapping) = 1
    /\ Len(NewIds(arg, DictKeys(pre.uuid_mapping))) = 2

(***************************************************************************)
(* C3. Round trip: restore_output, given the mapping of a replace call,    *)
(* replaces every delimited placeholder of that mapping by the delimited   *)
(* identifier and leaves the rest of the text as it is.                    *)
(***************************************************************************)
C3_RoundTrip ==
    pc = "restored" =>
        ret.text = ExpectedRestore(arg, held, Sep, DictValues(held))

(***************************************************************************)
(* C4. Fixed width: every placeholder assigned is exactly nr_digits        *)
(* decimal digits, the span restore_output scans for.                      *)
(***************************************************************************)
C4_FixedWidth ==
    \A k \in 1..Len(Mapping) :
        /\ Len(Mapping[k][2]) = replacer.nr_digits
        /\ \A j \in 1..Len(Mapping[k][2]) : IsDigit(Mapping[k][2][j])
        /\ DigitPatternMatchAt(Wrap(Mapping[k][2], Sep), 1, Sep, CloseSep(Sep),
                               replacer.nr_digits)

(***************************************************************************)
(* C5. Pass-through, as claimed: a text with no delimited UUID comes back  *)
(* unchanged and the mapping returned is empty.                            *)
(***************************************************************************)
C5_PassThroughEmpty ==
    (pc = "replaced" /\ ~HasKind(arg, "id")) =>
        /\ ret.text = PieceText(arg, Sep)
        /\ ret.mapping = <<>>

(***************************************************************************)
(* C5, amended. A text with no delimited UUID comes back unchanged and the *)
(* instance is left as it was; the mapping returned is the mapping the     *)
(* instance had before the call, which is empty on a fresh instance and    *)
(* for clean_prompt.                                                       *)
(***************************************************************************)
C5_PassThrough ==
    (pc = "replaced" /\ ~HasKind(arg, "id")) =>
        /\ ret.text = PieceText(arg, Sep)
        /\ ret.mapping = pre.uuid_mapping
        /\ replacer = pre
        /\ clean_prompt(PieceText(arg, Sep), Sep, replacer.nr_digits)
               = [text |-> PieceText(arg, Sep), mapping |-> <<>>]

\* a text of an invalid token and a literal, on an instance that knows identifiers
C5_Witness ==
    /\ pc = "replaced"
    /\ ~HasKind(arg, "id")
    /\ HasKind(arg, "bad")
    /\ HasKind(arg, "lit")
    /\ pre.uuid_mapping # <<>>

(***************************************************************************)
(* C6. Determinism: replace_uuids called again with the same text returns  *)
(* the same text, adds no entry and does not advance the counter.          *)
(***************************************************************************)
C6_Determinism ==
    pc = "replaced" =>
        LET again == replace_uuids(replacer, PieceText(arg, Sep))
        IN  /\ again.text = ret.text
            /\ again.mapping = ret.mapping
            /\ again.self = replacer

\* the first call assigned a new placeholder
C6_Witness ==
    /\ pc = "replaced"
    /\ replacer.counter > pre.counter
    /\ pre.counter > 0

(***************************************************************************)
(* C7. Append-only: no step but reset removes an entry, changes the        *)
(* placeholder of an identifier of the mapping, or lowers the counter.     *)
(***************************************************************************)
C7_AppendOnly ==
    [][pc' # "reset" =>
          /\ \A k \in 1..Len(Mapping) :
                 /\ DictHas(Mapping', Mapping[k][1])
                 /\ DictGet(Mapping', Mapping[k][1]) = Mapping[k][2]
          /\ replacer'.counter >= replacer.counter]_vars

\* a call that met a known identifier and added a new one
C7_Witness ==
    /\ pc = "replaced"
    /\ IdSet(arg) \cap DictKeys(pre.uuid_mapping) # {}
    /\ Len(Mapping) > Len(pre.uuid_mapping)

(***************************************************************************)
(* C8. Invalid tokens: a delimited token that is no 8-4-4-4-12 UUID stays  *)
(* verbatim, enters no mapping and takes no counter value, and the valid   *)
(* identifiers of the same text are replaced.                              *)
(***************************************************************************)
C8_InvalidNoOp ==
    (pc = "replaced" /\ HasKind(arg, "bad")) =>
        /\ DictKeys(Mapping) = DictKeys(pre.uuid_mapping) \cup IdSet(arg)
        /\ replacer.counter = pre.counter + Len(NewIds(arg, DictKeys(pre.uuid_mapping)))
        /\ ret.text = ExpectedReplace(arg, Mapping, Sep)

\* an invalid token that uuid.UUID would accept, beside a new valid identifier
C8_Witness ==
    /\ pc = "replaced"
    /\ \E j, k \in 1..Len(arg) :
           /\ arg[j] = <<"bad", MisplacedHyphens>>
           /\ arg[k][1] = "id"
           /\ arg[k][2] \notin DictKeys(pre.uuid_mapping)

(***************************************************************************)
(* C9. Unmapped placeholders: restore_output leaves a span of nr_digits    *)
(* digits that the mapping does not hold verbatim (every such span when    *)
(* the mapping is empty) and restores the mapped spans of the same text.   *)
(***************************************************************************)
C9_UnmappedLeftAlone ==
    pc = "restored" =>
        /\ ret.text = ExpectedRestore(arg, held, Sep,
               {v \in DictValues(held) : Len(v) = replacer.nr_digits})
        /\ held = <<>> => ret.text = PieceText(arg, Sep)

\* a mapped and an unmapped placeholder of the right width in one text
C9_Witness ==
    /\ pc = "restored"
    /\ \E j, k \in 1..Len(arg) :
           /\ arg[j][1] = "ph" /\ arg[j][2] \in DictValues(held)
           /\ arg[k][1] = "ph" /\ arg[k][2] \notin DictValues(held)
           /\ Len(arg[k][2]) = replacer.nr_digits

(***************************************************************************)
(* C10. reset: the mapping is empty and the counter 0, the configuration   *)
(* is kept, and the next new identifier gets the zero placeholder, as on a *)
(* new instance of the same configuration.                                 *)
(***************************************************************************)
C10_ResetStartState ==
    pc = "reset" =>
        /\ Mapping = <<>>
        /\ replacer.counter = 0
        /\ replacer.sep = pre.sep
        /\ replacer.close_sep = pre.close_sep
        /\ replacer.nr_digits = pre.nr_digits
        /\ replacer = UUIDReplacer(pre.sep, pre.nr_digits)
        /\ \A u \in IdPool :
               replace_uuids(replacer, Wrap(u, Sep)).text
                   = Wrap(Numeral(0, replacer.nr_digits), Sep)

\* reset of an instance that had assigned placeholders
C10_Witness ==
    /\ pc = "reset"
    /\ pre.counter >= 2
    /\ Len(pre.uuid_mapping) >= 2

(***************************************************************************)
(* The delimiter scenario: every separator of the table and one that       *)
(* closes with itself, on one span opened and closed by any two delimiter  *)
(* characters.                                                             *)
(***************************************************************************)
DelimSeps == {"[", "(", "{", "<", "|"}

DelimChars == {"[", "]", "(", ")", "{", "}", "<", ">", "|"}

\* one literal piece: a token between an opening and a closing character
Span(o, body, c) == <<<<"lit", <<o>> \o body \o <<c>>>>>>

InitDelims == /\ \E s \in DelimSeps : replacer = UUIDReplacer(s, 2)
              /\ pc = "idle"
              /\ arg = <<>>
              /\ pre = replacer
              /\ ret = NoRet
              /\ held = <<>>
              /\ NoOthers

ReplaceDelims == \E o, c \in DelimChars : DoReplace(Span(o, UUIDOf("a"), c))

RestoreDelims == \E o, c \in DelimChars : DoRestore(Span(o, <<"0", "0">>, c))

NextDelims == ReplaceDelims \/ RestoreDelims \/ Reset \/ Continue

SpecDelims == InitDelims /\ [][NextDelims]_vars

\* the closing character the delimiter table gives
Pairs == {<<"[", "]">>, <<"(", ")">>, <<"{", "}">>, <<"<", ">">>}

ExpectedClose(s) == IF \E p \in Pairs : p[1] = s
                    THEN (CHOOSE p \in Pairs : p[1] = s)[2]
                    ELSE s

(***************************************************************************)
(* The configuration scenario: an instance made with nr_digits <= 0.       *)
(***************************************************************************)
InitConfig == /\ \E n \in {-1, 0} : replacer = UUIDReplacer("[", n)
              /\ pc = "idle"
              /\ arg = <<>>
              /\ pre = replacer
              /\ ret = NoRet
              /\ held = <<>>
              /\ NoOthers

SpecConfig == InitConfig /\ [][Next]_vars

(***************************************************************************)
(* C13. Delimiter fidelity: '[', '(', '{', '<' close with ']', ')', '}',   *)
(* '>' and any other character with itself; replace and restore derive the *)
(* same closing character, match only the spans opened by sep and closed   *)
(* by it, and emit the same pair.                                          *)
(***************************************************************************)
C13_DelimiterFidelity ==
    LET close == ExpectedClose(Sep)
        text == PieceText(arg, Sep)
        ours == text[1] = Sep /\ text[Len(text)] = close
    IN  /\ replacer.close_sep = close
        /\ restore_close_sep(Sep) = close
        /\ pc = "replaced" =>
               ret.text = IF ours THEN <<Sep>> \o Numeral(0, replacer.nr_digits) \o <<close>>
                          ELSE text
        /\ pc = "restored" =>
               ret.text = IF ours /\ held # <<>> THEN <<Sep>> \o UUIDOf("a") \o <<close>>
                          ELSE text

\* a placeholder between '<' and '>' has been restored
C13_Witness ==
    /\ pc = "restored"
    /\ Sep = "<"
    /\ ret.text = <<"<">> \o UUIDOf("a") \o <<">">>

(***************************************************************************)
(* C17. Invalid configuration: with nr_digits <= 0 no instance is made, so *)
(* no replace or restore call returns a result.                            *)
(***************************************************************************)
C17_InvalidConfigRejected ==
    replacer.nr_digits <= 0 => pc \notin {"replaced", "restored"}

(***************************************************************************)
(* C20. Counter and mapping agree: the counter is the number of entries,   *)
(* and the placeholders are the numerals of 0 .. counter-1 padded to       *)
(* nr_digits, none skipped and none used twice.                            *)
(***************************************************************************)
C20_CounterAgreement ==
    /\ replacer.counter = Len(Mapping)
    /\ Cardinality(DictValues(Mapping)) = replacer.counter
    /\ DictValues(Mapping) = {Numeral(k, replacer.nr_digits) : k \in 0..(replacer.counter - 1)}

\* a call on an instance of one identifier that met it again and added another
C20_Witness ==
    /\ pc = "replaced"
    /\ pre.counter = 1
    /\ replacer.counter = 2
    /\ IdSet(arg) \cap DictKeys(pre.uuid_mapping) # {}

(***************************************************************************)
(* The object scenario: one instance whose mapping is object 1; the caller *)
(* keeps every mapping it was returned (held: the reference, and the       *)
(* contents it had when the caller last saw or changed it), may change a   *)
(* mapping it holds, and passes one to restore_output.                     *)
(***************************************************************************)
PreObj == [self |-> replacer, heap |-> heap]

InitObj == /\ replacer = [UUIDReplacer("[", 2) EXCEPT !.uuid_mapping = 1]
           /\ heap = <<<<>>>>
           /\ pc = "idle"
           /\ arg = <<>>
           /\ pre = PreObj
           /\ ret = NoRet
           /\ held = <<>>
           /\ client = <<>>
           /\ threads = <<>>

ObjTexts == SeqsUpTo({<<"id", u>> : u \in IdPool}, 1)

ReplaceObj ==
    /\ pc = "idle"
    /\ Len(held) < MaxCalls
    /\ \E t \in ObjTexts :
           LET r == replace_uuids_obj(replacer, heap, PieceText(t, replacer.sep))
           IN  /\ replacer' = r.self
               /\ heap' = r.heap
               /\ ret' = [text |-> r.text, mapping |-> r.mapping]
               /\ arg' = t
    /\ pc' = "replaced"
    /\ pre' = PreObj
    /\ UNCHANGED <<held, client, threads>>

ResetObj ==
    /\ pc = "idle"
    /\ LET r == reset_obj(replacer, heap)
       IN  replacer' = r.self /\ heap' = r.heap
    /\ pc' = "reset"
    /\ arg' = <<>>
    /\ pre' = PreObj
    /\ ret' = NoRet
    /\ UNCHANGED <<held, client, threads>>

RestoreObj ==
    /\ pc = "idle"
    /\ \E k \in 1..Len(held), t \in {<<<<"ph", Numeral(j, replacer.nr_digits)>>>> : j \in 0..1} :
           LET r == restore_output_obj(heap, PieceText(t, replacer.sep), held[k].ref,
                                       replacer.sep, replacer.nr_digits)
           IN  /\ heap' = r.heap
               /\ ret' = [text |-> r.text, mapping |-> held[k].ref]
               /\ arg' = t
    /\ pc' = "restored"
    /\ pre' = PreObj
    /\ UNCHANGED <<replacer, held, client, threads>>

\* the caller clears a mapping it holds, or puts an entry of its own into it
CallerModifies ==
    /\ pc = "idle"
    /\ \E k \in 1..Len(held) :
       \E v \in {<<>>, DictSet(heap[held[k].ref], UUIDOf("7"), <<"9", "9">>)} :
           /\ v # heap[held[k].ref]
           /\ heap' = [heap EXCEPT ![held[k].ref] = v]
           /\ held' = [held EXCEPT ![k].was = v]
    /\ pc' = "modified"
    /\ arg' = <<>>
    /\ pre' = PreObj
    /\ ret' = NoRet
    /\ UNCHANGED <<replacer, client, threads>>

\* the caller takes the result and goes on; it keeps a returned mapping
ContinueObj ==
    /\ pc # "idle"
    /\ pc' = "idle"
    /\ held' = IF pc = "replaced"
               THEN Append(held, [ref |-> ret.mapping, was |-> heap[ret.mapping]])
               ELSE held
    /\ arg' = <<>>
    /\ pre' = PreObj
    /\ ret' = NoRet
    /\ UNCHANGED <<replacer, heap, client, threads>>

NextObj == ReplaceObj \/ ResetObj \/ RestoreObj \/ CallerModifies \/ ContinueObj

SpecObj == InitObj /\ [][NextObj]_vars

(***************************************************************************)
(* C11. The mapping returned by replace_uuids is a copy of the cumulative  *)
(* mapping: it holds every identifier seen so far, no later replace_uuids  *)
(* or reset changes a mapping returned before, and the caller changing a   *)
(* returned mapping does not change the instance.                          *)
(***************************************************************************)
C11_SnapshotCopy ==
    /\ \A k \in 1..Len(held) : heap[held[k].ref] = held[k].was
    /\ pc = "replaced" =>
           /\ heap[ret.mapping] = heap[replacer.uuid_mapping]
           /\ DictKeys(heap[ret.mapping])
                  = DictKeys(pre.heap[pre.self.uuid_mapping]) \cup IdSet(arg)
    /\ pc = "modified" =>
           /\ replacer = pre.self
           /\ heap[replacer.uuid_mapping] = pre.heap[pre.self.uuid_mapping]

\* a reset of an instance that has identifiers, while the caller holds a mapping
C11_Witness ==
    /\ pc = "reset"
    /\ pre.heap[pre.self.uuid_mapping] # <<>>
    /\ \E k \in 1..Len(held) : held[k].was # <<>>

(***************************************************************************)
(* C12. restore_output is pure: it changes neither the instance nor the    *)
(* mapping passed to it nor any other object, a second call with the same  *)
(* arguments gives the same text, and the text depends on the mapping as   *)
(* the caller holds it, whatever replace_uuids and reset did in between.   *)
(***************************************************************************)
C12_RestorePure ==
    pc = "restored" =>
        /\ replacer = pre.self
        /\ heap = pre.heap
        /\ restore_output_obj(heap, PieceText(arg, Sep), ret.mapping, Sep,
                              replacer.nr_digits).text = ret.text
        /\ \A k \in 1..Len(held) :
               held[k].ref = ret.mapping =>
                   ret.text = restore_output(PieceText(arg, Sep), held[k].was, Sep,
                                             replacer.nr_digits)

\* a placeholder restored from a held mapping after the instance has moved on
C12_Witness ==
    /\ pc = "restored"
    /\ ret.text # PieceText(arg, Sep)
    /\ heap[ret.mapping] # heap[replacer.uuid_mapping]

(***************************************************************************)
(* The batch scenario: process_messages on lists of messages.  A message   *)
(* is given as [role, kind, pieces, name]: kind "str" for a string content *)
(* of the pieces, "none" for a content that is no string, "absent" for no  *)
(* content field; name says whether the message has a further field.       *)
(***************************************************************************)
Msg(role, kind, pieces, name) ==
    [role |-> role, kind |-> kind, pieces |-> pieces, name |-> name]

BatchMessages ==
    {Msg("user", "str", <<<<"id", UUIDOf("a")>>>>, FALSE),
     Msg("user", "str", <<<<"id", UUIDOf("A")>>, <<"id", UUIDOf("a")>>>>, TRUE),
     Msg("system", "str", <<<<"id", UUIDOf("7")>>, <<"bad", NotAUuid>>>>, FALSE),
     Msg("system", "str", <<<<"lit", <<"x">>>>>>, TRUE),
     Msg("user", "str", <<<<"bad", MisplacedHyphens>>>>, FALSE),
     Msg("tool", "none", <<>>, TRUE),
     Msg("user", "absent", <<>>, FALSE)}

\* the dict of a message
Render(m, s) ==
    <<<<"role", <<"str", m.role>>>>>>
    \o (CASE m.kind = "str" -> <<<<"content", <<"str", PieceText(m.pieces, s)>>>>>>
          [] m.kind = "none" -> <<<<"content", <<"none">>>>>>
          [] OTHER -> <<>>)
    \o (IF m.name THEN <<<<"name", <<"str", <<"n">>>>>>>> ELSE <<>>)

RenderAll(ms, s) == [k \in 1..Len(ms) |-> Render(ms[k], s)]

NoBatch == [processed_messages |-> <<>>, all_mappings |-> <<>>, messages |-> <<>>]

InitBatch == /\ \E cfg \in Configs : replacer = UUIDReplacer(cfg[1], cfg[2])
             /\ pc = "idle"
             /\ arg = <<>>
             /\ pre = replacer
             /\ ret = NoBatch
             /\ held = <<>>
             /\ NoOthers

\* process_messages with the separator and width of the configuration
ProcessMessages ==
    /\ pc = "idle"
    /\ \E ms \in SeqsUpTo(BatchMessages, MaxMsgs) :
           /\ ret' = process_messages(RenderAll(ms, replacer.sep), replacer.sep,
                                      replacer.nr_digits)
           /\ arg' = ms
    /\ pc' = "processed"
    /\ UNCHANGED <<replacer, pre, held, others>>

ContinueBatch ==
    /\ pc = "processed"
    /\ pc' = "idle"
    /\ arg' = <<>>
    /\ ret' = NoBatch
    /\ UNCHANGED <<replacer, pre, held, others>>

NextBatch == ProcessMessages \/ ContinueBatch

SpecBatch == InitBatch /\ [][NextBatch]_vars

\* the pieces of the string contents of the messages, in order
RECURSIVE AllPieces(_)
AllPieces(ms) ==
    IF ms = <<>> THEN <<>>
    ELSE (IF Head(ms).kind = "str" THEN Head(ms).pieces ELSE <<>>) \o AllPieces(Tail(ms))

\* the mapping of the identifiers of the pieces in first-seen order
FirstSeenMapping(pieces, n) ==
    LET ids == NewIds(pieces, {})
    IN  [j \in 1..Len(ids) |-> <<ids[j], Numeral(j - 1, n)>>]

PairSet(d) == {d[k] : k \in 1..Len(d)}

\* a dict without its content entry
SansContent(d) == SelectSeq(d, LAMBDA e : e[1] # "content")

(***************************************************************************)
(* C14. Batch accumulation: the messages of one call share one namespace   *)
(* in sequence order: an identifier met again in a later message has the   *)
(* placeholder of its first appearance, and the combined mapping holds     *)
(* exactly the identifiers replaced, each with the placeholder used.       *)
(***************************************************************************)
C14_BatchAccumulation ==
    pc = "processed" =>
        LET exp == FirstSeenMapping(AllPieces(arg), replacer.nr_digits)
        IN  /\ PairSet(ret.all_mappings) = PairSet(exp)
            /\ Len(ret.all_mappings) = Len(exp)
            /\ Len(ret.processed_messages) = Len(arg)
            /\ \A k \in 1..Len(arg) :
                   arg[k].kind = "str" =>
                       /\ DictHas(ret.processed_messages[k], "content")
                       /\ DictGet(ret.processed_messages[k], "content")
                              = <<"str", ExpectedReplace(arg[k].pieces, exp, Sep)>>

\* the second message has a new identifier before one of the first message
C14_Witness ==
    /\ pc = "processed"
    /\ Len(arg) = 2
    /\ arg[1].pieces = <<<<"id", UUIDOf("a")>>>>
    /\ arg[2].pieces = <<<<"id", UUIDOf("A")>>, <<"id", UUIDOf("a")>>>>

(***************************************************************************)
(* C15. Batch pass-through: the result has the length and order of the     *)
(* input; only string contents change; a message without content or with a *)
(* content that is no string, and every other field, come back equal; the  *)
(* caller's messages are as they were.                                     *)
(***************************************************************************)
C15_BatchPassThrough ==
    pc = "processed" =>
        LET input == RenderAll(arg, Sep)
        IN  /\ Len(ret.processed_messages) = Len(arg)
            /\ ret.messages = input
            /\ \A k \in 1..Len(arg) :
                   /\ arg[k].kind # "str" => ret.processed_messages[k] = input[k]
                   /\ SansContent(ret.processed_messages[k]) = SansContent(input[k])
                   /\ [j \in 1..Len(input[k]) |-> input[k][j][1]]
                          = [j \in 1..Len(ret.processed_messages[k]) |->
                                 ret.processed_messages[k][j][1]]

\* a replaced message with a further field beside one with no string content
C15_Witness ==
    /\ pc = "processed"
    /\ Len(arg) = 2
    /\ arg[1].kind = "str" /\ arg[1].name /\ IdSet(arg[1].pieces) # {}
    /\ arg[2].kind # "str"
    /\ ret.processed_messages[1] # Render(arg[1], Sep)

(***************************************************************************)
(* The client scenario: one prompt_cleaner context manager around one      *)
(* wrapped client.  The caller enters it (each entry makes a new           *)
(* PromptCleanerClient) and makes up to MaxCalls calls, through            *)
(* chat.completions.create or through an attribute the wrappers hand on.   *)
(* A call is two steps, with the wrapped client's work between them: the   *)
(* wrapper processes the arguments and calls the wrapped client (Call,     *)
(* Delegate), and later the wrapped client answers or raises (Answer,      *)
(* Raise); callers on other threads may call in between.  threads holds    *)
(* the calls that wait for the wrapped client, held the arguments of every *)
(* call made (current: made on the client of the latest entry).            *)
(***************************************************************************)
Callers == {"t1", "t2"}

ClientMessages ==
    [a |-> Msg("user", "str", <<<<"id", UUIDOf("a")>>>>, FALSE),
     Aa |-> Msg("user", "str", <<<<"id", UUIDOf("A")>>, <<"id", UUIDOf("a")>>>>, TRUE),
     tool |-> Msg("tool", "none", <<>>, FALSE)]

\* the messages arguments of the calls
ClientMessageLists ==
    {<<>>, <<ClientMessages.a>>, <<ClientMessages.Aa>>,
     <<ClientMessages.tool, ClientMessages.a>>,
     <<ClientMessages.a, ClientMessages.Aa>>}

\* the arguments of a call: has says whether there is a messages argument
ClientArgs ==
    {[has |-> TRUE, msgs |-> ms] : ms \in ClientMessageLists}
    \cup {[has |-> FALSE, msgs |-> <<>>]}

\* the arguments of the calls made through __getattr__
DelegateArgs == {a \in ClientArgs : Len(a.msgs) = 1 /\ IdSet(AllPieces(a.msgs)) # {}}

\* the keyword arguments of a call
RenderKwargs(a, s) ==
    <<<<"model", <<"str", <<"m">>>>>>>>
    \o (IF a.has THEN <<<<"messages", <<"list", RenderAll(a.msgs, s)>>>>>> ELSE <<>>)
    \o <<<<"temperature", <<"num", 1>>>>>>

NoArgs == [has |-> FALSE, msgs |-> <<>>]

Cleaner == client.cleaner_client

InitClient == /\ \E cfg \in Configs : client = prompt_cleaner(<<>>, cfg[1], cfg[2])
              /\ pc = "idle"
              /\ arg = NoArgs
              /\ pre = client
              /\ ret = <<>>
              /\ held = <<>>
              /\ threads = <<>>
              /\ replacer = <<>>
              /\ heap = <<>>

\* with prompt_cleaner(...) as client: __enter__ (and __exit__, which does nothing)
Enter ==
    /\ pc = "idle"
    /\ client' = __enter__(client)
    /\ pre' = client'
    /\ held' = [k \in 1..Len(held) |-> [held[k] EXCEPT !.current = FALSE]]
    /\ UNCHANGED <<pc, arg, ret, threads, replacer, heap>>

\* the wrapper has done its part of call number Len(held) + 1 and the wrapped
\* client has the call
Called(a, via, r) ==
    /\ client' = [client EXCEPT !.cleaner_client = r.self]
    /\ threads' = Append(threads, [method |-> via, call |-> Len(held) + 1,
                                   kwargs |-> r.call])
    /\ held' = Append(held, [has |-> a.has, msgs |-> a.msgs, via |-> via,
                             current |-> TRUE])
    /\ arg' = a
    /\ pre' = client
    /\ ret' = <<>>
    /\ pc' = "called"
    /\ UNCHANGED <<replacer, heap>>

\* client.chat.completions.create(**kwargs), up to the wrapped client's create
Call ==
    /\ pc = "idle"
    /\ Cleaner # None
    /\ Len(held) < MaxCalls
    /\ Len(threads) < Cardinality(Callers)
    /\ \E a \in ClientArgs :
           \E r \in {create(Cleaner, RenderKwargs(a, client.sep))} :
               Called(a, "create", r)

\* a call through __getattr__, as client.chat.completions.with_raw_response.create
Delegate ==
    /\ pc = "idle"
    /\ Cleaner # None
    /\ Len(held) < MaxCalls
    /\ Len(threads) < Cardinality(Callers)
    /\ \E a \in DelegateArgs :
           \E r \in {getattr_call(Cleaner, RenderKwargs(a, client.sep))} :
               Called(a, "getattr", r)

Without(q, i) == [k \in 1..(Len(q) - 1) |-> IF k < i THEN q[k] ELSE q[k + 1]]

\* the wrapped client with one more answered call; the clients refer to it
WithAnswer(self, entry) ==
    [self EXCEPT !.original_client = Append(@, entry),
                 !.cleaner_client =
                     IF self.cleaner_client = None THEN None
                     ELSE [self.cleaner_client EXCEPT !._client = Append(@, entry)]]

\* the wrapped client answers a call, and the wrapper returns the response
Answer ==
    /\ pc = "idle"
    /\ \E i \in 1..Len(threads) :
           /\ client' = WithAnswer(client, [method |-> threads[i].method,
                                            call |-> threads[i].call,
                                            kwargs |-> threads[i].kwargs,
                                            response |-> Response(threads[i].call)])
           /\ ret' = [call |-> threads[i].call, result |-> Response(threads[i].call)]
           /\ arg' = [has |-> held[threads[i].call].has, msgs |-> held[threads[i].call].msgs]
           /\ threads' = Without(threads, i)
    /\ pre' = client
    /\ pc' = "created"
    /\ UNCHANGED <<held, replacer, heap>>

\* the wrapped client raises, and the exception leaves the wrapper
Raise ==
    /\ pc = "idle"
    /\ \E i \in 1..Len(threads) :
           /\ ret' = [call |-> threads[i].call, result |-> <<"raise">>]
           /\ arg' = [has |-> held[threads[i].call].has, msgs |-> held[threads[i].call].msgs]
           /\ threads' = Without(threads, i)
    /\ pre' = client
    /\ pc' = "raised"
    /\ UNCHANGED <<client, held, replacer, heap>>

ContinueClient ==
    /\ pc # "idle"
    /\ pc' = "idle"
    /\ arg' = NoArgs
    /\ ret' = <<>>
    /\ pre' = client
    /\ UNCHANGED <<replacer, held, heap, client, threads>>

NextClient == Enter \/ Call \/ Delegate \/ Answer \/ Raise \/ ContinueClient

SpecClient == InitClient /\ [][NextClient]_vars

\* the spans of content that stand where the pieces have identifier u
RECURSIVE SpansOf(_, _, _, _, _)
SpansOf(content, pieces, u, s, n) ==
    IF pieces = <<>> THEN {}
    ELSE LET w == IF Head(pieces)[1] = "id" THEN n + 2 ELSE Len(Flatten(Head(pieces), s))
         IN  (IF Head(pieces) = <<"id", u>> THEN {SubSeq(content, 1, w)} ELSE {})
             \cup SpansOf(SubSeq(content, w + 1, Len(content)), Tail(pieces), u, s, n)

\* the calls the wrapped client has answered
AnsweredCalls == {client.original_client[k].call : k \in 1..Len(client.original_client)}

\* what the wrapped client has of call k
Received(k) ==
    client.original_client[CHOOSE j \in 1..Len(client.original_client) :
                               client.original_client[j].call = k]

\* the messages the wrapped client received in call k
Forwarded(k) == DictGet(Received(k).kwargs, "messages")[2]

\* the answered create calls with messages made on the current client
CleanedCalls ==
    {k \in AnsweredCalls : held[k].current /\ held[k].via = "create" /\ held[k].has}

\* the spans that replaced identifier u in the messages of call k
UsedFor(k, u) ==
    UNION {SpansOf(DictGet(Forwarded(k)[j], "content")[2], held[k].msgs[j].pieces, u,
                   client.sep, client.nr_digits) :
               j \in {i \in 1..Len(held[k].msgs) : held[k].msgs[i].kind = "str"}}

(***************************************************************************)
(* C16. Mappings across client calls: an identifier in the messages of two *)
(* calls on one client is replaced by the same placeholder in both, and    *)
(* get_uuid_mappings records that placeholder for it.                      *)
(***************************************************************************)
C16_MappingsPreserved ==
    pc = "created" =>
        \A k1, k2 \in CleanedCalls :
            k1 < k2 =>
                \A u \in IdSet(AllPieces(held[k1].msgs)) \cap IdSet(AllPieces(held[k2].msgs)) :
                    UsedFor(k1, u) \cup UsedFor(k2, u)
                        = {Wrap(DictGet(get_uuid_mappings(client), u), client.sep)}

\* the keyword arguments the wrapped client is to get for arguments a
ExpectedKwargs(a, via) ==
    LET kwargs == RenderKwargs(a, client.sep)
        exp == FirstSeenMapping(AllPieces(a.msgs), client.nr_digits)
    IN  IF via = "create" /\ a.has
        THEN DictSet(kwargs, "messages",
                     <<"list",
                       [j \in 1..Len(a.msgs) |->
                            IF a.msgs[j].kind = "str"
                            THEN DictSet(Render(a.msgs[j], client.sep), "content",
                                         <<"str", ExpectedReplace(a.msgs[j].pieces, exp,
                                                                  client.sep)>>)
                            ELSE Render(a.msgs[j], client.sep)]>>)
        ELSE kwargs

(***************************************************************************)
(* C18. Forwarding: create calls the wrapped client once, with messages    *)
(* replaced by the substituted copy and every other argument unchanged,    *)
(* and returns that call's response; without a messages argument the       *)
(* arguments go on unchanged and uuid_mappings is not modified.            *)
(***************************************************************************)
C18_Forwarding ==
    /\ \A i, j \in 1..Len(threads) : i # j => threads[i].call # threads[j].call
    /\ \A i, j \in 1..Len(client.original_client) :
           i # j => client.original_client[i].call # client.original_client[j].call
    /\ \A i \in 1..Len(threads) : threads[i].call \notin AnsweredCalls
    /\ pc = "called" =>
           LET n == Len(held)
               sent == threads[Len(threads)]
           IN  /\ sent.call = n
               /\ client.original_client = pre.original_client
               /\ sent.kwargs = ExpectedKwargs(arg, held[n].via)
               /\ (held[n].via = "create" /\ ~arg.has) =>
                      /\ sent.kwargs = RenderKwargs(arg, client.sep)
                      /\ Cleaner.uuid_mappings = pre.cleaner_client.uuid_mappings
    /\ pc = "created" =>
           LET n == Len(client.original_client)
               answered == client.original_client[n]
           IN  /\ n = Len(pre.original_client) + 1
               /\ \A k \in 1..(n - 1) : client.original_client[k] = pre.original_client[k]
               /\ answered.call = ret.call
               /\ ret.result = answered.response
               /\ answered.kwargs = ExpectedKwargs(arg, held[ret.call].via)
               /\ Cleaner = pre.cleaner_client
                  \/ Cleaner = [pre.cleaner_client EXCEPT !._client = client.original_client]
    /\ pc = "raised" => client = pre

\* a create call with identifiers has been answered after one without messages
C18_Witness ==
    /\ pc = "created"
    /\ Len(held) = 2
    /\ ~held[1].has
    /\ ret.call = 2
    /\ held[2].via = "create"
    /\ arg.has /\ IdSet(AllPieces(arg.msgs)) # {}
    /\ Received(2).kwargs # RenderKwargs(arg, client.sep)
    /\ 1 \in AnsweredCalls

(***************************************************************************)
(* The concurrent scenario: two threads run replace_uuids on one           *)
(* UUIDReplacer.  The source takes no lock, so a thread can be preempted   *)
(* between any two reads or writes of self.uuid_mapping and self.counter;  *)
(* each action is one such read or write with the local steps that follow  *)
(* it.  A thread's text is a sequence of identifier pieces, the matches    *)
(* re.sub hands to replace_match; i is the match it is at.                 *)
(***************************************************************************)
Threads == {"t1", "t2"}

ConcIds == {UUIDOf("a"), UUIDOf("A")}

ConcTexts == {<<<<"id", u>>>> : u \in ConcIds}
             \cup {<<<<"id", u>>, <<"id", v>>>> : u, v \in ConcIds}

Thread(pieces) ==
    [pieces |-> pieces, i |-> 1, at |-> "check", replacement |-> <<>>, loaded |-> 0,
     generated |-> <<>>, out |-> <<>>, mapping |-> <<>>]

InitConc == /\ \E cfg \in Configs : replacer = UUIDReplacer(cfg[1], cfg[2])
            /\ threads \in {[t \in Threads |-> Thread(f[t])] : f \in [Threads -> ConcTexts]}
            /\ pc = "concurrent"
            /\ arg = <<>>
            /\ pre = replacer
            /\ ret = NoRet
            /\ held = <<>>
            /\ heap = <<>>
            /\ client = <<>>

ConcFrame == UNCHANGED <<pc, arg, pre, ret, held, heap, client>>

\* the identifier of the match thread t is at
uuid_str(t) == threads[t].pieces[threads[t].i][2]

\* return f"{self.sep}{replacement}{self.close_sep}", and re.sub goes on to the next match
Emit(th, replacement) ==
    [th EXCEPT !.out = @ \o <<replacer.sep>> \o replacement \o <<replacer.close_sep>>,
               !.i = @ + 1,
               !.at = "check"]

\* if uuid_str in self.uuid_mapping
Check(t) ==
    /\ threads[t].at = "check"
    /\ threads[t].i <= Len(threads[t].pieces)
    /\ _is_valid_uuid(uuid_str(t))
    /\ threads' = [threads EXCEPT ![t].at =
                       IF DictHas(replacer.uuid_mapping, uuid_str(t)) THEN "hit"
                       ELSE "generate"]
    /\ UNCHANGED replacer
    /\ ConcFrame

\* replacement = self.uuid_mapping[uuid_str]
Hit(t) ==
    /\ threads[t].at = "hit"
    /\ threads' = [threads EXCEPT ![t] =
                       Emit(threads[t], DictGet(replacer.uuid_mapping, uuid_str(t)))]
    /\ UNCHANGED replacer
    /\ ConcFrame

\* replacement = str(self.counter).zfill(self.nr_digits)
Generate(t) ==
    /\ threads[t].at = "generate"
    /\ threads' = [threads EXCEPT
                       ![t].replacement = ZFill(Str(replacer.counter), replacer.nr_digits),
                       ![t].generated =
                           Append(@, ZFill(Str(replacer.counter), replacer.nr_digits)),
                       ![t].at = "load"]
    /\ UNCHANGED replacer
    /\ ConcFrame

\* self.counter += 1: the read
LoadCounter(t) ==
    /\ threads[t].at = "load"
    /\ threads' = [threads EXCEPT ![t].loaded = replacer.counter, ![t].at = "store"]
    /\ UNCHANGED replacer
    /\ ConcFrame

\* self.counter += 1: the write
StoreCounter(t) ==
    /\ threads[t].at = "store"
    /\ replacer' = [replacer EXCEPT !.counter = threads[t].loaded + 1]
    /\ threads' = [threads EXCEPT ![t].at = "insert"]
    /\ ConcFrame

\* self.uuid_mapping[uuid_str] = replacement
Insert(t) ==
    /\ threads[t].at = "insert"
    /\ replacer' = [replacer EXCEPT
                        !.uuid_mapping = DictSet(@, uuid_str(t), threads[t].replacement)]
    /\ threads' = [threads EXCEPT ![t] = Emit(threads[t], threads[t].replacement)]
    /\ ConcFrame

\* return modified_text, self.uuid_mapping.copy()
Return(t) ==
    /\ threads[t].at = "check"
    /\ threads[t].i > Len(threads[t].pieces)
    /\ threads' = [threads EXCEPT ![t].mapping = replacer.uuid_mapping, ![t].at = "done"]
    /\ UNCHANGED replacer
    /\ ConcFrame

NextConc ==
    \E t \in Threads :
        \/ Check(t)
        \/ Hit(t)
        \/ Generate(t)
        \/ LoadCounter(t)
        \/ StoreCounter(t)
        \/ Insert(t)
        \/ Return(t)

SpecConc == InitConc /\ [][NextConc]_vars

AllDone == \A t \in Threads : threads[t].at = "done"

\* the placeholders _generate_replacement returned, over all threads
RECURSIVE Handed(_)
Handed(T) ==
    IF T = {} THEN <<>>
    ELSE LET t == CHOOSE x \in T : TRUE IN threads[t].generated \o Handed(T \ {t})

(***************************************************************************)
(* C19. Concurrent replace: in every interleaving of the callers, distinct *)
(* identifiers end with distinct placeholders, no counter value is handed  *)
(* out twice, and every caller's output has each identifier replaced by    *)
(* the placeholder the mapping records for it.                             *)
(***************************************************************************)
C19_CriticalSection ==
    AllDone =>
        /\ Cardinality(DictValues(Mapping)) = Len(Mapping)
        /\ \A j, k \in 1..Len(Handed(Threads)) :
               j # k => Handed(Threads)[j] # Handed(Threads)[k]
        /\ \A t \in Threads :
               threads[t].out = ExpectedReplace(threads[t].pieces, Mapping, Sep)

(***************************************************************************)
(* The round-trip scenario: clean_prompt on a text, then restore_output on *)
(* the cleaned text with the mapping clean_prompt returned.  The separator *)
(* is a bracket, a character that closes with itself, or a digit (any      *)
(* single character is a separator).  The texts are of identifiers,        *)
(* invalid tokens, literals, placeholder-shaped spans of ASCII and of      *)
(* other decimal digits, the pieces that form such a span with the         *)
(* delimiter of a neighbouring identifier (a digit before a closing        *)
(* character, an opening character before digits, a lone digit) and the    *)
(* runs of ten and of more than ten identifiers.                           *)
(***************************************************************************)
RoundTripConfigs == Configs \cup {<<"0", 1>>}

RoundTripPieces(self) ==
    {<<"id", u>> : u \in IdPool}
    \cup {<<"bad", NotAUuid>>, <<"lit", <<"x">>>>, <<"lit", <<"0">>>>,
          <<"ph", ZFill(<<"0">>, self.nr_digits)>>,
          <<"ph", Rep("U+0663", self.nr_digits)>>,
          <<"lit", ZFill(<<"0">>, self.nr_digits) \o <<self.close_sep>>>>,
          <<"lit", <<self.sep>> \o Rep("U+0663", self.nr_digits)>>}

RoundTripTexts(self) ==
    SeqsUpTo(RoundTripPieces(self), MaxPieces)
    \cup {Run(Len(OverflowIds) - OverflowExtra), Run(Len(OverflowIds))}

NoClean == [text |-> <<>>, mapping |-> <<>>]

InitRoundTrip == /\ \E cfg \in RoundTripConfigs : replacer = UUIDReplacer(cfg[1], cfg[2])
                 /\ pc = "idle"
                 /\ arg = <<>>
                 /\ pre = replacer
                 /\ ret = NoRet
                 /\ held = NoClean
                 /\ NoOthers

\* (C, M) = clean_prompt(T, sep, nr_digits)
CleanPrompt ==
    /\ pc = "idle"
    /\ \E t \in RoundTripTexts(replacer) :
           /\ arg' = t
           /\ ret' = clean_prompt(PieceText(t, replacer.sep), replacer.sep,
                                  replacer.nr_digits)
    /\ pc' = "cleaned"
    /\ UNCHANGED <<replacer, pre, held, others>>

\* restore_output(C, M, sep, nr_digits)
RestoreCleaned ==
    /\ pc = "cleaned"
    /\ held' = ret
    /\ ret' = [text |-> restore_output(ret.text, ret.mapping, replacer.sep,
                                       replacer.nr_digits),
               mapping |-> ret.mapping]
    /\ pc' = "roundtrip"
    /\ UNCHANGED <<replacer, arg, pre, others>>

ContinueRoundTrip ==
    /\ pc = "roundtrip"
    /\ pc' = "idle"
    /\ arg' = <<>>
    /\ ret' = NoRet
    /\ held' = NoClean
    /\ UNCHANGED <<replacer, pre, others>>

NextRoundTrip == CleanPrompt \/ RestoreCleaned \/ ContinueRoundTrip

SpecRoundTrip == InitRoundTrip /\ [][NextRoundTrip]_vars

\* 10^n
RECURSIVE Pow10(_)
Pow10(n) == IF n = 0 THEN 1 ELSE 10 * Pow10(n - 1)

\* text has a substring sep, n digits of the set, close_sep
HasSpanOf(text, s, n, digits) ==
    \E i \in 1..Len(text) :
        /\ i + n + 1 <= Len(text)
        /\ text[i] = s
        /\ \A j \in 1..n : text[i + j] \in digits
        /\ text[i + n + 1] = ExpectedClose(s)

\* text has a substring sep, n decimal digits 0..9, close_sep
HasPlaceholderForm(text, s, n) == HasSpanOf(text, s, n, AsciiDigits)

\* the text of arg meets the conditions of the round trip
RoundTripInput ==
    /\ replacer.nr_digits >= 1
    /\ Cardinality(IdSet(arg)) <= Pow10(replacer.nr_digits)
    /\ ~HasPlaceholderForm(PieceText(arg, Sep), Sep, replacer.nr_digits)

(***************************************************************************)
(* C21. Full round trip: for any separator, any nr_digits >= 1 and a text  *)
(* T of at most 10^nr_digits distinct identifiers and with no span of sep, *)
(* nr_digits decimal digits, close_sep, restore_output of clean_prompt's   *)
(* text and mapping is T exactly, also for a separator that closes with    *)
(* itself.                                                                 *)
(***************************************************************************)
C21_FullRoundTrip ==
    (pc = "roundtrip" /\ RoundTripInput) => ret.text = PieceText(arg, Sep)

\* Where the round trip does hold: the separator is no decimal digit and the
\* text has no span of sep, nr_digits digits of any script, close_sep.
RoundTripOutsideDigits ==
    (/\ pc = "roundtrip"
     /\ RoundTripInput
     /\ ~IsDigit(Sep)
     /\ ~HasSpanOf(PieceText(arg, Sep), Sep, replacer.nr_digits, DecimalDigits))
        => ret.text = PieceText(arg, Sep)

\* ten adjacent identifiers of a separator that closes with itself came back
RoundTripOfTen ==
    /\ pc = "roundtrip"
    /\ RoundTripInput
    /\ Sep = CloseSep(Sep)
    /\ ~IsDigit(Sep)
    /\ Cardinality(IdSet(arg)) = Pow10(replacer.nr_digits)
    /\ held.text # PieceText(arg, Sep)
    /\ ret.text = PieceText(arg, Sep)

(***************************************************************************)
(* C22. The client's mapping restores: after any create calls on one       *)
(* client, get_uuid_mappings gives distinct identifiers distinct           *)
(* placeholders, and restore_output with it turns every content sent in    *)
(* any of the calls back into the content the caller gave in that call.    *)
(***************************************************************************)
C22_ClientMappingRestores ==
    pc = "created" =>
        LET m == get_uuid_mappings(client)
        IN  /\ Cardinality(DictValues(m)) = Len(m)
            /\ \A k \in CleanedCalls :
                   \A j \in 1..Len(held[k].msgs) :
                       held[k].msgs[j].kind = "str" =>
                           restore_output(DictGet(Forwarded(k)[j], "content")[2], m,
                                          client.sep, client.nr_digits)
                               = PieceText(held[k].msgs[j].pieces, client.sep)

====
